---- MODULE Spec2Model ----
(***************************************************************************)
(* Model of hangman_game.py: mask_text, Game (won, lost, guess),           *)
(* GameWithTimer (deadline, timeout, guess) and the event handlers of      *)
(* HangmanApp that drive a game.                                           *)
(*                                                                         *)
(* A Python character is a one-element token: "a", "A", "1", "!", " ".     *)
(* Three non-ASCII characters are named in ASCII:                          *)
(*   "e_acute"  U+00E9  (isalpha, lower() is itself)                       *)
(*   "I_dot"    U+0130  (isalpha, lower() is the TWO code points           *)
(*                       U+0069 U+0307, i.e. <<"i", "comb_dot">>)          *)
(*   "comb_dot" U+0307  (combining mark, not isalpha)                      *)
(* A Python str is a sequence of characters.                               *)
(***************************************************************************)
EXTENDS Integers, Sequences, FiniteSets, TLC

VARIABLES secret, seconds_per_turn, lives, guessed, deadline, clock, last,
          ui, mk

\* the game: Game's fields, GameWithTimer's fields, the clock, and the record
\* of the latest call
vars == <<secret, seconds_per_turn, lives, guessed, deadline, clock, last>>

\* the game, the state of the HangmanApp window (ui) and the inputs and
\* outputs of mask_text called on its own (mk)
allvars == <<vars, ui, mk>>

(* ------------------------------ bounds -------------------------------- *)

\* largest reading of the fake clock at construction
MaxStart == 1
\* largest starting lives tried
MaxLives == 2
\* largest seconds_per_turn tried (the smallest is 1)
MaxTurn == 2
\* the fake clock stops advancing here
MaxClock == 4
\* largest single clock advance
MaxAdvance == 3
\* guess is no longer called once lives has fallen to -MaxDebt
MaxDebt == 2

(* ---------------------------- characters ------------------------------ *)

LowerAscii ==
    {"a", "b", "c", "d", "e", "h", "i", "l", "n", "o", "p", "r", "t", "w",
     "y", "z"}
UpperAscii == {"A", "H", "W"}

\* str.isalpha() of one character
IsAlphaChar(c) == c \in LowerAscii \cup UpperAscii \cup {"e_acute", "I_dot"}

\* str.lower() of one character: a str, since U+0130 lowers to two code points
LowerChar(c) ==
    CASE c = "A" -> <<"a">>
      [] c = "H" -> <<"h">>
      [] c = "W" -> <<"w">>
      [] c = "I_dot" -> <<"i", "comb_dot">>
      [] OTHER -> <<c>>

\* str.lower() of a str
RECURSIVE Lower(_)
Lower(s) == IF s = <<>> THEN <<>> ELSE LowerChar(Head(s)) \o Lower(Tail(s))

\* str.isalpha() of a str: non-empty and every character alphabetic
IsAlpha(s) == Len(s) > 0 /\ \A i \in 1..Len(s) : IsAlphaChar(s[i])

(* ----------------------------- mask_text ------------------------------ *)

\* {c.lower() for c in guessed}
LowerSet(G) == {Lower(g) : g \in G}

MaskToken_caseSensitive(ch, G) ==
    IF ch = " " THEN <<>>
    ELSE IF ~IsAlphaChar(ch) THEN <<ch>>
    ELSE IF <<ch>> \in G THEN <<ch>> ELSE <<"_">>

MaskToken_spaceKept(ch, G) ==
    IF ~IsAlphaChar(ch) THEN <<ch>>
    ELSE IF LowerChar(ch) \in G THEN <<ch>> ELSE <<"_">>

\* token(ch) inside mask_text, G being the lower-cased guessed set
MaskToken(ch, G) ==
    IF ch = " " THEN <<>>
    ELSE IF ~IsAlphaChar(ch) THEN <<ch>>
    ELSE IF LowerChar(ch) \in G THEN <<ch>> ELSE <<"_">>

RECURSIVE Join_noSeparator(_)
Join_noSeparator(toks) ==
    IF toks = <<>> THEN <<>> ELSE toks[1] \o Join_noSeparator(Tail(toks))

\* " ".join(toks): the tokens in order with one space between neighbours
RECURSIVE Join(_)
Join(toks) ==
    IF toks = <<>> THEN <<>>
    ELSE IF Len(toks) = 1 THEN toks[1]
    ELSE toks[1] \o <<" ">> \o Join(Tail(toks))

\* mask_text(secret, guessed)
MaskText(sec, G) ==
    LET low == LowerSet(G) IN
    Join([i \in 1..Len(sec) |-> MaskToken(sec[i], low)])

(* ------------------------------- Game --------------------------------- *)

\* {c.lower() for c in secret if c.isalpha()}
SecretLetters(sec) == {LowerChar(sec[i]) : i \in {j \in 1..Len(sec) : IsAlphaChar(sec[j])}}

Won_caseSensitive(sec, G) ==
    {<<sec[i]>> : i \in {j \in 1..Len(sec) : IsAlphaChar(sec[j])}} \subseteq G

\* Game.won
Won(sec, G) == SecretLetters(sec) \subseteq LowerSet(G)

Lost_ignoresWon(sec, lv, G) == lv <= 0

\* Game.lost
Lost(sec, lv, G) == lv <= 0 /\ ~Won(sec, G)

GameGuess_caseSensitiveRepeat(sec, lv, G, raw) ==
    IF raw = <<>> \/ Len(raw) # 1 \/ ~IsAlpha(raw)
    THEN [res |-> "invalid", lives |-> lv, guessed |-> G]
    ELSE LET ch == Lower(raw) IN
         IF raw \in G
         THEN [res |-> "repeat", lives |-> lv, guessed |-> G]
         ELSE IF ch \in SecretLetters(sec)
         THEN [res |-> "hit", lives |-> lv, guessed |-> G \cup {ch}]
         ELSE [res |-> "miss", lives |-> lv - 1, guessed |-> G]

GameGuess_recordsMiss(sec, lv, G, raw) ==
    IF raw = <<>> \/ Len(raw) # 1 \/ ~IsAlpha(raw)
    THEN [res |-> "invalid", lives |-> lv, guessed |-> G]
    ELSE LET ch == Lower(raw) IN
         IF ch \in LowerSet(G)
         THEN [res |-> "repeat", lives |-> lv, guessed |-> G]
         ELSE IF ch \in SecretLetters(sec)
         THEN [res |-> "hit", lives |-> lv, guessed |-> G \cup {ch}]
         ELSE [res |-> "miss", lives |-> lv - 1, guessed |-> G \cup {ch}]

\* Game.guess: the outcome and the lives and guessed it leaves
GameGuess(sec, lv, G, raw) ==
    IF raw = <<>> \/ Len(raw) # 1 \/ ~IsAlpha(raw)
    THEN [res |-> "invalid", lives |-> lv, guessed |-> G]
    ELSE LET ch == Lower(raw) IN
         IF ch \in LowerSet(G)
         THEN [res |-> "repeat", lives |-> lv, guessed |-> G]
         ELSE IF ch \in SecretLetters(sec)
         THEN [res |-> "hit", lives |-> lv, guessed |-> G \cup {ch}]
         ELSE [res |-> "miss", lives |-> lv - 1, guessed |-> G]

(* --------------------------- GameWithTimer ---------------------------- *)

ApplyTimeoutIfNeeded_atDeadline(now, lv, dl, spt) ==
    IF now >= dl
    THEN [fired |-> TRUE, lives |-> lv - 1, deadline |-> now + spt]
    ELSE [fired |-> FALSE, lives |-> lv, deadline |-> dl]

ApplyTimeoutIfNeeded_noCharge(now, lv, dl, spt) ==
    IF now > dl
    THEN [fired |-> TRUE, lives |-> lv, deadline |-> now + spt]
    ELSE [fired |-> FALSE, lives |-> lv, deadline |-> dl]

ApplyTimeoutIfNeeded_fromOldDeadline(now, lv, dl, spt) ==
    IF now > dl
    THEN [fired |-> TRUE, lives |-> lv - 1, deadline |-> dl + spt]
    ELSE [fired |-> FALSE, lives |-> lv, deadline |-> dl]

\* GameWithTimer._apply_timeout_if_needed: whether it fired, and the lives
\* and deadline it leaves
ApplyTimeoutIfNeeded(now, lv, dl, spt) ==
    IF now > dl
    THEN [fired |-> TRUE, lives |-> lv - 1, deadline |-> now + spt]
    ELSE [fired |-> FALSE, lives |-> lv, deadline |-> dl]

TimedGuess_freshTurn(sec, lv, G, dl, spt, now, raw) ==
    LET t == ApplyTimeoutIfNeeded(now, lv, dl, spt) IN
    IF t.fired
    THEN [res |-> "timeout", lives |-> t.lives, guessed |-> G,
          deadline |-> t.deadline]
    ELSE LET g == GameGuess(sec, t.lives, G, raw) IN
         [res |-> g.res, lives |-> g.lives, guessed |-> g.guessed,
          deadline |-> IF g.res \in {"hit", "miss"} THEN now + spt
                       ELSE t.deadline]

TimedGuess_alsoClassifies(sec, lv, G, dl, spt, now, raw) ==
    LET t == ApplyTimeoutIfNeeded(now, lv, dl, spt)
        g == GameGuess(sec, t.lives, G, raw) IN
    [res |-> IF t.fired THEN "timeout" ELSE g.res, lives |-> g.lives,
     guessed |-> g.guessed, deadline |-> t.deadline]

\* GameWithTimer.guess: the outcome and the lives, guessed and deadline it
\* leaves
TimedGuess(sec, lv, G, dl, spt, now, raw) ==
    LET t == ApplyTimeoutIfNeeded(now, lv, dl, spt) IN
    IF t.fired
    THEN [res |-> "timeout", lives |-> t.lives, guessed |-> G,
          deadline |-> t.deadline]
    ELSE LET g == GameGuess(sec, t.lives, G, raw) IN
         [res |-> g.res, lives |-> g.lives, guessed |-> g.guessed,
          deadline |-> t.deadline]

(* ------------------------------ inputs -------------------------------- *)

\* "Hi", "A a!", the one-character secret U+0130, and the empty secret
Secrets == { <<"H", "i">>, <<"A", " ", "a", "!">>, <<"I_dot">>, <<>> }

\* "", "ab", "1", U+00E9, and single letters in both cases
RawInputs ==
    { <<>>, <<"a", "b">>, <<"1">>, <<"e_acute">>,
      <<"a">>, <<"A">>, <<"h">>, <<"i">>, <<"z">>, <<"I_dot">> }

NoCall ==
    [res |-> "none", prevRes |-> "none", raw |-> <<>>, now |-> 0, lives |-> 0,
     guessed |-> {}, deadline |-> 0]

(* --------------------------- state machine ---------------------------- *)

NewGameWithTimer_deadlineFromZero(sec, lv, spt, now) ==
    [secret |-> sec, lives |-> lv, guessed |-> {}, seconds_per_turn |-> spt,
     deadline |-> spt]

\* GameWithTimer(sec, lives=lv, seconds_per_turn=spt, clock=...) built when
\* the clock reads now: the fields of the new game
NewGameWithTimer(sec, lv, spt, now) ==
    [secret |-> sec, lives |-> lv, guessed |-> {}, seconds_per_turn |-> spt,
     deadline |-> now + spt]

\* no window and no separate mask_text call
NoUi == [started |-> FALSE]
NoMask == [pc |-> "none"]

\* a game built with a fake clock reading 0..MaxStart; until the first
\* guess, last keeps the clock reading and the lives given to the
\* constructor
Init ==
    /\ \E sec \in Secrets, lv \in 1..MaxLives, spt \in 1..MaxTurn,
          now \in 0..MaxStart :
           LET g == NewGameWithTimer(sec, lv, spt, now) IN
           /\ secret = g.secret
           /\ seconds_per_turn = g.seconds_per_turn
           /\ lives = g.lives
           /\ guessed = g.guessed
           /\ clock = now
           /\ deadline = g.deadline
           /\ last = [NoCall EXCEPT !.now = now, !.lives = lv]
    /\ ui = NoUi /\ mk = NoMask

\* one call g.guess(raw); last records the call: its outcome, its input, the
\* clock reading it took, the lives, guessed and deadline it started from,
\* and the outcome of the call before it
Guess(raw) ==
    /\ lives > -MaxDebt
    /\ LET r == TimedGuess(secret, lives, guessed, deadline, seconds_per_turn,
                           clock, raw) IN
       /\ lives' = r.lives
       /\ guessed' = r.guessed
       /\ deadline' = r.deadline
       /\ last' = [res |-> r.res, prevRes |-> last.res, raw |-> raw,
                   now |-> clock, lives |-> lives, guessed |-> guessed,
                   deadline |-> deadline]
    /\ UNCHANGED <<secret, seconds_per_turn, clock, ui, mk>>

\* FakeClock.advance(d)
Advance(d) ==
    /\ clock + d <= MaxClock
    /\ clock' = clock + d
    /\ UNCHANGED <<secret, seconds_per_turn, lives, guessed, deadline, last,
                   ui, mk>>

Next ==
    \/ \E raw \in RawInputs : Guess(raw)
    \/ \E d \in 1..MaxAdvance : Advance(d)

\* a timed game driven by guess calls and a fake clock, as in the tests
Spec == Init /\ [][Next]_allvars

(* ----------------------- an unbounded clock ---------------------------- *)

\* A game whose clock never stops.  The code reads the clock only in
\* now > deadline and now + seconds_per_turn, so shifting clock and deadline
\* back together changes nothing it can observe, and a deadline below every
\* reading the clock can still take is as good as any other such deadline.
\* LiveAdvance lets d seconds pass and, when the reading would exceed
\* MaxClock, shifts both back so that the reading is MaxClock.
LiveInit ==
    /\ \E sec \in Secrets, lv \in 1..MaxLives, spt \in 1..MaxTurn,
          now \in 0..MaxStart :
           LET g == NewGameWithTimer(sec, lv, spt, now) IN
           /\ secret = g.secret
           /\ seconds_per_turn = g.seconds_per_turn
           /\ lives = g.lives
           /\ guessed = g.guessed
           /\ clock = now
           /\ deadline = g.deadline
    /\ last = NoCall
    /\ ui = NoUi /\ mk = NoMask

\* one call g.guess(raw); of the call, last keeps the outcome only
LiveGuess(raw) ==
    /\ lives > -MaxDebt
    /\ LET r == TimedGuess(secret, lives, guessed, deadline, seconds_per_turn,
                           clock, raw) IN
       /\ lives' = r.lives
       /\ guessed' = r.guessed
       /\ deadline' = r.deadline
       /\ last' = [NoCall EXCEPT !.res = r.res]
    /\ UNCHANGED <<secret, seconds_per_turn, clock, ui, mk>>

\* d seconds pass
LiveAdvance(d) ==
    /\ LET shift == IF clock + d > MaxClock THEN clock + d - MaxClock ELSE 0
       IN /\ clock' = clock + d - shift
          /\ deadline' = IF deadline - shift < -1 THEN -1
                         ELSE deadline - shift
    /\ UNCHANGED <<secret, seconds_per_turn, lives, guessed, last, ui, mk>>

LiveNext ==
    \/ \E raw \in RawInputs : LiveGuess(raw)
    \/ \E d \in 1..MaxAdvance : LiveAdvance(d)

\* time keeps passing, and guess keeps being called: by the player or, with
\* "", by the ticker the app reschedules every 250 ms
LiveSpec ==
    /\ LiveInit
    /\ [][LiveNext]_allvars
    /\ WF_allvars(\E d \in 1..MaxAdvance : LiveAdvance(d))
    /\ WF_allvars(LiveGuess(<<>>))

(* ------------------------ mask_text on its own ------------------------ *)

\* longest generated secret
MaxMaskLen == 3

MaskChars == {"a", "A", "b", " ", "!", "_"}

HelloWorld == <<"H", "e", "l", "l", "o", " ", "W", "o", "r", "l", "d", "!">>

\* every str over MaskChars up to MaxMaskLen, "Hello World!" and U+0130
MaskSecrets ==
    UNION {[1..n -> MaskChars] : n \in 0..MaxMaskLen}
        \cup {HelloWorld, <<"I_dot">>}

\* guessed sets: letters in either case, one of them in no generated
\* secret, and the set of all letters of the secret
MaskGuessed(sec) ==
    SUBSET {<<"a">>, <<"A">>, <<"b">>, <<"z">>} \cup {SecretLetters(sec)}

\* the arguments of a call mask_text(S, G), before the call
MaskInit ==
    /\ \E s \in MaskSecrets : \E g \in MaskGuessed(s) :
          mk = [pc |-> "start", S |-> s, G |-> g, out |-> <<>>,
                again |-> <<>>]
    /\ secret = <<>> /\ seconds_per_turn = 1 /\ lives = 1 /\ guessed = {}
    /\ deadline = 1 /\ clock = 0 /\ last = NoCall
    /\ ui = NoUi

\* out = mask_text(S, G)
MaskOnce ==
    /\ mk.pc = "start"
    /\ mk' = [mk EXCEPT !.pc = "masked", !.out = MaskText(mk.S, mk.G)]
    /\ UNCHANGED <<vars, ui>>

\* again = mask_text(out, G)
MaskAgain ==
    /\ mk.pc = "masked"
    /\ mk' = [mk EXCEPT !.pc = "remasked", !.again = MaskText(mk.out, mk.G)]
    /\ UNCHANGED <<vars, ui>>

MaskNext == MaskOnce \/ MaskAgain

\* mask_text applied to bounded inputs, then to its own output
MaskSpec == MaskInit /\ [][MaskNext]_allvars

(* ----------------------------- HangmanApp ----------------------------- *)

SECONDS_PER_TURN == 15
START_LIVES == 6

\* the app's clock (time.monotonic, in whole seconds) is followed up to here
MaxAppClock == 20
\* seconds that pass between two events of the window
AppStep == 5

\* the first entry of BASIC_WORDS and the third of PHRASES
BASIC_WORDS == { <<"p", "y", "t", "h", "o", "n">> }
PHRASES == { <<"c", "l", "e", "a", "n", " ", "c", "o", "d", "e">> }

\* choose_secret(level): random.choice over the list of the level
ChooseSecret(level) == IF level = "intermediate" THEN PHRASES ELSE BASIC_WORDS

\* what can be in the entry at Submit, after strip(): nothing, a letter of
\* a secret, or a letter of no secret
AppInputs ==
    ({<<>>, <<"z">>} \cup
     UNION {{<<w[i]>> : i \in 1..Len(w)} : w \in BASIC_WORDS \cup PHRASES})
        \ {<<" ">>}

\* HangmanApp.__init__: no game, no ticker, entry and Submit enabled, the
\* lives label showing START_LIVES, no banner
AppInit ==
    /\ ui = [started |-> FALSE, level |-> "basic", var_lives |-> START_LIVES,
             enabled |-> TRUE, banner |-> "", ticking |-> FALSE]
    /\ secret = <<>> /\ seconds_per_turn = SECONDS_PER_TURN /\ lives = 0
    /\ guessed = {} /\ deadline = 0 /\ clock = 0 /\ last = NoCall
    /\ mk = NoMask

\* _refresh_board followed by _end_with_banner when the game is over: the
\* window after the game has come to lives lv and guessed G
RefreshBoard(u, sec, lv, G) ==
    IF Won(sec, G)
    THEN [u EXCEPT !.var_lives = lv, !.banner = "won", !.enabled = FALSE]
    ELSE IF Lost(sec, lv, G)
    THEN [u EXCEPT !.var_lives = lv, !.banner = "lost", !.enabled = FALSE]
    ELSE [u EXCEPT !.var_lives = lv]

\* the level radio buttons
SetLevel(l) ==
    /\ ui.level # l
    /\ ui' = [ui EXCEPT !.level = l]
    /\ UNCHANGED <<vars, mk>>

\* start_game: a new GameWithTimer, banner cleared, board refreshed, ticker
\* (re)started (its first _tick finds the whole turn remaining), entry and
\* Submit enabled
StartGame ==
    /\ \E sec \in ChooseSecret(ui.level) :
          LET g == NewGameWithTimer(sec, START_LIVES, SECONDS_PER_TURN, clock)
              u == [ui EXCEPT !.started = TRUE, !.banner = ""]
              r == RefreshBoard(u, g.secret, g.lives, g.guessed) IN
          /\ secret' = g.secret
          /\ seconds_per_turn' = g.seconds_per_turn
          /\ lives' = g.lives
          /\ guessed' = g.guessed
          /\ deadline' = g.deadline
          /\ ui' = [r EXCEPT !.ticking = TRUE, !.enabled = TRUE]
    /\ UNCHANGED <<clock, last, mk>>

\* the New button
New == StartGame

\* _remaining: int(max(0, deadline - now)), on whole seconds
Remaining == IF deadline - clock > 0 THEN deadline - clock ELSE 0

\* _tick, every 250 ms once a game has been started: when no time remains
\* it calls guess("") and refreshes the board if that timed out
Tick ==
    /\ ui.ticking
    /\ IF Remaining <= 0
       THEN LET r == TimedGuess(secret, lives, guessed, deadline,
                                seconds_per_turn, clock, <<>>) IN
            /\ lives' = r.lives
            /\ guessed' = r.guessed
            /\ deadline' = r.deadline
            /\ ui' = IF r.res = "timeout"
                     THEN RefreshBoard(ui, secret, r.lives, r.guessed)
                     ELSE ui
       ELSE UNCHANGED <<lives, guessed, deadline, ui>>
    /\ UNCHANGED <<secret, seconds_per_turn, clock, last, mk>>

\* on_submit (the Submit button, or Return in the entry) while the entry and
\* the button are enabled: starts a game if there is none, else applies the
\* guess and refreshes the board
Submit(raw) ==
    /\ ui.enabled
    /\ IF ~ui.started
       THEN StartGame
       ELSE LET r == TimedGuess(secret, lives, guessed, deadline,
                                seconds_per_turn, clock, raw) IN
            /\ lives' = r.lives
            /\ guessed' = r.guessed
            /\ deadline' = r.deadline
            /\ ui' = RefreshBoard(ui, secret, r.lives, r.guessed)
            /\ UNCHANGED <<secret, seconds_per_turn, clock, last, mk>>

\* time passing between two events of the window
AppAdvance ==
    /\ clock + AppStep <= MaxAppClock
    /\ clock' = clock + AppStep
    /\ UNCHANGED <<secret, seconds_per_turn, lives, guessed, deadline, last,
                   ui, mk>>

AppNext ==
    \/ \E l \in {"basic", "intermediate"} : SetLevel(l)
    \/ New
    \/ Tick
    \/ \E raw \in AppInputs : Submit(raw)
    \/ AppAdvance

\* the window driven by its events and by the passing of time
AppSpec == AppInit /\ [][AppNext]_allvars

\* Game.won and Game.lost of the current game
won == Won(secret, guessed)
lost == Lost(secret, lives, guessed)

\* Game.masked of the current game
masked == MaskText(secret, guessed)

\* a call has been made
Called == last.res # "none"

(* ------------------------------ claims -------------------------------- *)

Classified == {"hit", "miss", "repeat", "invalid"}

\* raw is one alphabetic character
SingleLetter(raw) == Len(raw) = 1 /\ IsAlpha(raw)

\* C1: a guess whose clock reading is strictly past the deadline returns
\* 'timeout', costs exactly one life, sets the deadline to now +
\* seconds_per_turn and leaves guessed alone, whatever raw is; a guess whose
\* clock reading is at or before the deadline does not return 'timeout'.
C1_TimeoutContract ==
    Called =>
        /\ last.now > last.deadline =>
              /\ last.res = "timeout"
              /\ lives = last.lives - 1
              /\ deadline = last.now + seconds_per_turn
              /\ guessed = last.guessed
        /\ last.now <= last.deadline => last.res # "timeout"

\* a timeout that discarded a letter of the secret not yet guessed
C1_Witness ==
    /\ last.res = "timeout"
    /\ SingleLetter(last.raw)
    /\ Lower(last.raw) \in SecretLetters(secret) \ guessed

\* C2: after a guess that returned 'timeout' at clock time t, a guess made
\* while the clock is still <= t + seconds_per_turn does not return
\* 'timeout' (a step that leaves the clock alone is a guess call).
C2_NoTimeoutInNewWindow ==
    [][(/\ last.res = "timeout"
        /\ clock' = clock
        /\ clock <= last.now + seconds_per_turn)
       => last'.res # "timeout"]_vars

\* a hit right after a timeout, the clock having advanced in between
C2_Witness ==
    /\ last.prevRes = "timeout"
    /\ last.res = "hit"
    /\ last.now > last.deadline - seconds_per_turn

\* C3: a guess that returns hit, miss, repeat or invalid leaves the deadline
\* unchanged; the deadline changes only in a guess that returns 'timeout'.
C3_DeadlineOnlyOnTimeout ==
    /\ [](Called /\ last.res \in Classified => deadline = last.deadline)
    /\ [][deadline' # deadline =>
            clock' = clock /\ last'.res = "timeout" /\ last'.now = clock]_vars

\* a hit or miss made when part of the turn window was used up already
C3_Witness ==
    /\ last.res \in {"hit", "miss"}
    /\ last.now <= last.deadline
    /\ last.deadline - last.now < seconds_per_turn
    /\ deadline = last.deadline

\* C4: won and lost are never both true.
C4_WonLostExclusive == ~(won /\ lost)

\* a won game whose lives have run out
C4_Witness == won /\ lives <= 0

\* C5: once lost is true it stays true after every later guess.
C5_LostTerminal == [][lost => lost']_vars

\* C6: once won is true, after every later guess won is still true and lost
\* is still false.
C6_WonTerminal == [][won => won' /\ ~lost']_vars

\* a game already won whose last guess took lives to zero or below
C6_Witness ==
    /\ Won(secret, last.guessed)
    /\ last.res \in {"miss", "timeout"}
    /\ last.lives > lives
    /\ lives <= 0
    /\ won

\* C7: lives never falls below zero.
C7_LivesNonNegative == lives >= 0

\* C8: every step leaves lives unchanged or decreases it by exactly 1.
C8_AtMostOneLife == [][lives' = lives \/ lives' = lives - 1]_vars

\* a timeout taken more than a whole turn past the deadline, with an input
\* that would have been a miss, cost one life
C8_Witness ==
    /\ last.res = "timeout"
    /\ last.now > last.deadline + seconds_per_turn
    /\ SingleLetter(last.raw)
    /\ Lower(last.raw) \notin SecretLetters(secret)
    /\ lives = last.lives - 1

\* C9: guessed only grows, each of its elements is a single lowercase letter
\* occurring (case-insensitively) in the secret, and a miss, an invalid
\* input or a timeout adds nothing.
C9_GuessedSingleLetters ==
    /\ Called => last.guessed \subseteq guessed
    /\ \A g \in guessed :
          SingleLetter(g) /\ Lower(g) = g /\ g \in SecretLetters(secret)
    /\ Called /\ last.res \in {"miss", "invalid", "timeout"} =>
          guessed = last.guessed

\* C10 as stated: whatever the clock reads, a guess of a single letter whose
\* lowercase form is already in guessed returns 'repeat' and leaves guessed
\* and lives unchanged.
C10_RepeatAnyClock ==
    Called /\ SingleLetter(last.raw) /\ Lower(last.raw) \in last.guessed =>
        last.res = "repeat" /\ guessed = last.guessed /\ lives = last.lives

\* C10 amended: when the clock reading is not past the deadline, a guess of
\* a single letter whose lowercase form is already in guessed returns
\* 'repeat' and leaves guessed and lives unchanged.
C10_RepeatWithinDeadline ==
    (/\ Called
     /\ last.now <= last.deadline
     /\ SingleLetter(last.raw)
     /\ Lower(last.raw) \in last.guessed) =>
        last.res = "repeat" /\ guessed = last.guessed /\ lives = last.lives

\* an upper-case repeat of a letter guessed in lower case, in a lost game
C10_Witness ==
    /\ last.res = "repeat"
    /\ Lower(last.raw) # last.raw
    /\ lives <= 0

\* C11: within the deadline, guess with "", "ab", "1" or U+00E9 returns
\* 'invalid' and leaves lives and guessed unchanged.
C11_InvalidInputs ==
    (/\ Called
     /\ last.now <= last.deadline
     /\ last.raw \in {<<>>, <<"a", "b">>, <<"1">>, <<"e_acute">>}) =>
        last.res = "invalid" /\ lives = last.lives /\ guessed = last.guessed

\* C12: when a guess returns 'hit' and adds the last letter of the secret
\* still missing from guessed, then right after the call won is true and
\* lost is false, whatever lives is (also when lives <= 0).
C12_FinalHitWins ==
    (/\ last.res = "hit"
     /\ ~Won(secret, last.guessed)
     /\ SecretLetters(secret) \subseteq last.guessed \cup {Lower(last.raw)}) =>
        won /\ ~lost

\* the final hit made in a game whose lives had already run out
C12_Witness ==
    /\ last.res = "hit"
    /\ ~Won(secret, last.guessed)
    /\ won
    /\ lives <= 0

\* C13: within the deadline, a guess of a single letter whose lowercase form
\* occurs in the secret and is not yet in guessed returns 'hit', adds
\* exactly that lowercase form to guessed and leaves lives unchanged;
\* afterwards masked shows the original character at every position of the
\* secret holding that letter and shows every other position as before.
C13_HitReveals ==
    (/\ Called
     /\ last.now <= last.deadline
     /\ SingleLetter(last.raw)
     /\ Lower(last.raw) \in SecretLetters(secret) \ last.guessed) =>
        LET ch == Lower(last.raw)
            shown(i) ==
                IF IsAlphaChar(secret[i]) /\ LowerChar(secret[i]) = ch
                THEN <<secret[i]>>
                ELSE MaskToken(secret[i], LowerSet(last.guessed))
        IN /\ last.res = "hit"
           /\ guessed = last.guessed \cup {ch}
           /\ lives = last.lives
           /\ masked = Join([i \in 1..Len(secret) |-> shown(i)])

\* an upper-case guess revealed two positions of different case ("A a!"
\* becomes "A  a !")
C13_Witness ==
    /\ last.res = "hit"
    /\ last.raw = <<"A">>
    /\ masked = <<"A", " ", " ", "a", " ", "!">>

\* C14: within the deadline, a guess of a single letter that does not occur
\* in the secret returns 'miss', costs exactly one life and leaves guessed
\* unchanged; a miss that brings lives to 0 in a game not won makes lost
\* true and won false; and guessing the same wrong letter again (a step that
\* leaves the clock alone is a guess call) is again a 'miss' costing a life.
C14_MissCostsLife ==
    /\ []((/\ Called
           /\ last.now <= last.deadline
           /\ SingleLetter(last.raw)
           /\ Lower(last.raw) \notin SecretLetters(secret)) =>
              /\ last.res = "miss"
              /\ lives = last.lives - 1
              /\ guessed = last.guessed
              /\ (lives = 0 /\ ~Won(secret, last.guessed)) => (lost /\ ~won))
    /\ [][(/\ last.res = "miss"
           /\ clock' = clock
           /\ clock <= deadline
           /\ last'.raw = last.raw) =>
              /\ last'.res = "miss"
              /\ lives' = lives - 1
              /\ guessed' = guessed]_vars

\* two misses in a row, the second taking the last life: the game is lost
C14_Witness ==
    /\ last.res = "miss"
    /\ last.prevRes = "miss"
    /\ lives = 0
    /\ lost
    /\ guessed = last.guessed

\* the number of characters of s[1..i] that are not a space
NonSpaceUpTo(s, i) == Cardinality({j \in 1..i : s[j] # " "})
NonSpace(s) == NonSpaceUpTo(s, Len(s))

\* C15 as stated: re-masking with the same G gives the same string, and
\* masking S with all its letters gives S itself.
C15_IdempotentAndReveals ==
    mk.pc = "remasked" =>
        /\ mk.again = mk.out
        /\ mk.G = SecretLetters(mk.S) => mk.out = mk.S

\* C15 amended: re-masking with the same G gives the same string exactly
\* when S has exactly one character that is not a space or mask(S, G) is
\* empty; masking S with all its letters shows every character of S other
\* than a space as itself, in order, joined by single spaces (a space gives
\* an empty token), and that output is S itself exactly when S is empty or
\* has exactly one character that is not a space.
C15_IdempotentOnlyForOneToken ==
    mk.pc = "remasked" =>
        /\ mk.again = mk.out <=> (NonSpace(mk.S) = 1 \/ mk.out = <<>>)
        /\ mk.G = SecretLetters(mk.S) =>
              /\ mk.out =
                    Join([i \in 1..Len(mk.S) |->
                            IF mk.S[i] = " " THEN <<>> ELSE <<mk.S[i]>>])
              /\ mk.out = mk.S <=> (NonSpace(mk.S) = 1 \/ mk.S = <<>>)

\* "Hello World!" masked with all its letters is "H e l l o  W o r l d !",
\* and masking that again gives yet another string
C15_Witness ==
    /\ mk.pc = "remasked"
    /\ mk.S = HelloWorld
    /\ mk.G = SecretLetters(mk.S)
    /\ mk.out # mk.S
    /\ mk.again # mk.out

\* C16: mask_text(S, G) is the tokens of S joined by single spaces, the
\* token of a space being empty, of another non-letter the character, of a
\* letter whose lowercase form is in lower-cased G the character, and '_'
\* otherwise.  Position by position: the output has one character per
\* non-space character of S and Len(S) - 1 separators; the token of S[i]
\* stands after i - 1 separators and the earlier tokens, the k-th
\* separator after k tokens.  So "" gives "", and "Hello World!" with no
\* guesses gives "_ _ _ _ _  _ _ _ _ _ !".
C16_MaskIsJoinedTokens ==
    mk.pc # "start" =>
        LET S == mk.S
            o == mk.out
            n == Len(S)
            low == {Lower(g) : g \in mk.G}
            char(i) ==
                IF ~IsAlphaChar(S[i]) THEN S[i]
                ELSE IF LowerChar(S[i]) \in low THEN S[i] ELSE "_"
        IN /\ Len(o) = NonSpace(S) + (IF n = 0 THEN 0 ELSE n - 1)
           /\ \A i \in 1..n :
                 S[i] # " " => o[(i - 1) + NonSpaceUpTo(S, i)] = char(i)
           /\ \A k \in 1..(n - 1) : o[k + NonSpaceUpTo(S, k)] = " "
           /\ S = <<>> => o = <<>>
           /\ (S = HelloWorld /\ mk.G = {}) =>
                 o = <<"_", " ", "_", " ", "_", " ", "_", " ", "_", " ", " ",
                       "_", " ", "_", " ", "_", " ", "_", " ", "_", " ", "!">>

\* a secret with a space, an upper-case letter revealed by a lower-case
\* guess, and a guessed letter that is not in the secret
C16_Witness ==
    /\ mk.pc = "masked"
    /\ mk.S = <<"A", " ", "b">>
    /\ mk.G = {<<"a">>, <<"z">>}
    /\ mk.out = <<"A", " ", " ", "_">>

\* C17 as stated: a newly constructed game, for any secret and positive
\* starting lives L, has lives = L, guessed empty, every alphabetic position
\* of masked shown as '_', is neither won nor lost, and has deadline = clock
\* reading at construction + seconds_per_turn.
C17_FreshGame ==
    last.res = "none" =>
        /\ lives = last.lives
        /\ guessed = {}
        /\ masked =
              Join([i \in 1..Len(secret) |->
                      IF secret[i] = " " THEN <<>>
                      ELSE IF IsAlphaChar(secret[i]) THEN <<"_">>
                      ELSE <<secret[i]>>])
        /\ ~won /\ ~lost
        /\ deadline = last.now + seconds_per_turn

\* C17 amended: the same, for any secret holding at least one letter; a
\* secret with no letter is won from construction.
C17_FreshGameWithLetters ==
    last.res = "none" =>
        /\ lives = last.lives
        /\ guessed = {}
        /\ masked =
              Join([i \in 1..Len(secret) |->
                      IF secret[i] = " " THEN <<>>
                      ELSE IF IsAlphaChar(secret[i]) THEN <<"_">>
                      ELSE <<secret[i]>>])
        /\ SecretLetters(secret) # {} => (~won /\ ~lost)
        /\ SecretLetters(secret) = {} => (won /\ ~lost)
        /\ deadline = last.now + seconds_per_turn

\* "A a!" just built, the clock reading 1 at construction: masked is
\* "_  _ !"
C17_Witness ==
    /\ last.res = "none"
    /\ clock = last.now
    /\ last.now = 1
    /\ masked = <<"_", " ", " ", "_", " ", "!">>
    /\ deadline = 1 + seconds_per_turn

\* C19: a GameWithTimer.guess(raw) whose clock reading is not past the
\* deadline returns what Game.guess(raw) returns from the same secret, lives
\* and guessed, and leaves the same lives and guessed; the same holds of
\* every call that does not return 'timeout'.
C19_TimedRefinesUntimed ==
    Called =>
        LET g == GameGuess(secret, last.lives, last.guessed, last.raw) IN
        (last.now <= last.deadline \/ last.res # "timeout") =>
            /\ last.res = g.res
            /\ lives = g.lives
            /\ guessed = g.guessed

\* a miss made exactly at the deadline, as the untimed game would score it
C19_Witness ==
    /\ last.res = "miss"
    /\ last.now = last.deadline
    /\ lives = last.lives - 1

\* C18: once a round has ended (the banner is shown), lives and the lives
\* shown do not change until New starts a new game (which clears the
\* banner), and the lives shown are never below 0.
C18_FinishedGameFrozen ==
    /\ [][(ui.banner # "" /\ ui'.banner # "") =>
            (lives' = lives /\ ui'.var_lives = ui.var_lives)]_allvars
    /\ [](ui.var_lives >= 0)

\* C20: in a timed game with positive starting lives and seconds_per_turn,
\* if the clock keeps advancing and guess keeps being called (if only with
\* ""), the game is eventually won or lost: a game that is never won
\* becomes lost.
C20_IdleGameIsLost == <>(won \/ lost)

\* a game lost with no letter found, its last life taken by a timeout
C20_Witness ==
    /\ lost
    /\ lives = 0
    /\ guessed = {}
    /\ last.res = "timeout"

====
